---- MODULE Spec2Model ----
(***************************************************************************)
(* A model of lib/sbi/sbi_hart.c (rockos-opensbi): hart feature detection, *)
(* PMP configuration, trap delegation, mode initialisation and the         *)
(* privilege switch, for one RV64 hart.                                    *)
(*                                                                         *)
(* Bit sets (the feature flags, the delegation CSRs, a PMP config byte,    *)
(* the counter-enable CSRs) are sets of bit names or bit positions: `|` is *)
(* \cup, `& ~m` is \ m.  Addresses and PMP address registers are integers. *)
(***************************************************************************)
EXTENDS Integers, Sequences, FiniteSets, TLC

\* ------------------------------------------------------------ bounds
\* Largest number of accessible PMP address registers of a modelled hart.
MaxPmp == 3
\* Longest memory-region list of a modelled domain.
MaxRegions == 3
\* Largest number of accessible programmable counters of a modelled hart.
MaxMhpm == 2
\* Width of the modelled PMP address registers and counters: the all-ones
\* patterns the probes write (PMP_ADDR_MASK, ~0UL) have this many ones here.
RegBits == 16
\* Most hart_detect_features runs of one behaviour.
MaxDetect == 2
\* Longest buffer handed to sbi_hart_get_features_str.
MaxNfstr == 6

\* ------------------------------------------------- program constants
PMP_SHIFT == 2
NAPOT_SIZE == 4096
\* __check_csr_64(CSR_PMPADDR0, ...) probes at most 64 address registers.
PMP_PROBE_MAX == 64
\* MHPMCOUNTER3, then __check_csr_4/_8/_16: at most 29 counters.
MHPM_PROBE_MAX == 29
XLEN == 64
PRV_U == 0
PRV_S == 1
PRV_M == 3
SBI_EINVAL == -3
SBI_ENOMEM == -12

PMP_R == {"R"}
PMP_W == {"W"}
PMP_X == {"X"}
PMP_L == {"L"}
\* The two-bit match-mode field A: OFF = {}, TOR = bit 3, NA4 = bit 4, NAPOT = both.
PMP_A == {"A0", "A1"}
PMP_A_TOR == {"A0"}
PMP_A_NA4 == {"A1"}
PMP_A_NAPOT == {"A0", "A1"}
\* The eight bits of one config byte; bits 5 and 6 are reserved (read as 0).
CfgByteBits == {"R", "W", "X", "A0", "A1", "L"}

MIP_SSIP == {"SSIP"}
MIP_STIP == {"STIP"}
MIP_SEIP == {"SEIP"}
MIP_LCOFIP == {"LCOFIP"}

SBI_HART_HAS_SCOUNTEREN == {"scounteren"}
SBI_HART_HAS_MCOUNTEREN == {"mcounteren"}
SBI_HART_HAS_MCOUNTINHIBIT == {"mcountinhibit"}
SBI_HART_HAS_SSCOFPMF == {"sscofpmf"}
SBI_HART_HAS_TIME == {"time"}

\* ------------------------------------------------------- arithmetic
RECURSIVE Pow2(_)
Pow2(n) == IF n <= 0 THEN 1 ELSE 2 * Pow2(n - 1)

\* Bit i of x.
Bit(x, i) == (x \div Pow2(i)) % 2

\* x & ~(1 << i)
ClearBit(x, i) == x - Bit(x, i) * Pow2(i)

\* The bit index k of a one-bit mask 2^k.
RECURSIVE Log2Exact(_)
Log2Exact(m) == IF m <= 1 THEN 0 ELSE 1 + Log2Exact(m \div 2)

\* __ffs: index of the least significant set bit (x # 0).
RECURSIVE Ffs(_)
Ffs(x) == IF x % 2 = 1 THEN 0 ELSE 1 + Ffs(x \div 2)

\* __fls: index of the most significant set bit (x # 0).
RECURSIVE Fls(_)
Fls(x) == IF x <= 1 THEN 0 ELSE 1 + Fls(x \div 2)

\* log2roundup: the least n with 2^n >= x.
RECURSIVE Log2RoundupFrom(_, _)
Log2RoundupFrom(x, n) == IF Pow2(n) >= x THEN n ELSE Log2RoundupFrom(x, n + 1)
log2roundup(x) == Log2RoundupFrom(x, 0)

\* --------------------------------------------------------- variables
VARIABLES
    hw,           \* the hart and platform: which CSRs and extensions exist
    pc,           \* where the hart is: boot, run, mret, next_stage, hang, ...
    rc,           \* return code of the last entry point that returned
    hfeatures,    \* struct hart_features in the hart's scratch space
    expected_trap,\* sbi_hart_expected_trap
    pmpaddr,      \* PMPADDR<n>, the stored bits
    pmpcfg,       \* the config byte of PMP entry n (packed in PMPCFG<n/4 & ~1>)
    mhpmcounter,  \* MHPMCOUNTER<3+n>
    csr,          \* the other CSRs, by name
    fp_cleared,   \* fp_init has zeroed the FP registers and FCSR
    regs,         \* a0, a1 and the privilege the hart runs at
    pmp_done,     \* sbi_hart_pmp_configure has run since boot
    pmp_call,     \* what the last sbi_hart_pmp_configure call did
    detect_log,   \* what the hart_detect_features runs did
    reinit_log,   \* the delegation CSRs before the last sbi_hart_reinit
    switch_req,   \* the arguments of the sbi_hart_switch_mode call
    features_str  \* the caller's buffer of sbi_hart_get_features_str

vars == <<hw, pc, rc, hfeatures, expected_trap, pmpaddr, pmpcfg, mhpmcounter,
          csr, fp_cleared, regs, pmp_done, pmp_call, detect_log, reinit_log,
          switch_req, features_str>>

misa_extension(e) == e \in hw.misa

\* -------------------------------------------------- the PMP registers
\* RV64: PMPCFG<c> for even c packs the config bytes of entries 4c .. 4c+7.
PmpCfgCsr(n) == ((n \div 4) \div 2) * 2
PmpCfgShift(n) == (n % 8) * 8

\* The CSR exists on this hart (an access to a CSR that does not exist traps).
PmpCfgCsrExists(c) == hw.pmpcfg_ok /\ (c = 0 \/ c * 4 < hw.npmp)
PmpAddrCsrExists(n) == n < hw.npmp

\* An entry's address register is frozen by its own lock bit, and by the lock
\* bit of the next entry when that entry is top-of-range.
PmpAddrLocked(cfg, n) ==
    \/ "L" \in cfg[n]
    \/ /\ n + 1 < hw.npmp
       /\ "L" \in cfg[n + 1]
       /\ cfg[n + 1] \cap PMP_A = PMP_A_TOR

\* The hart has hw.npmp accessible PMP entries; the first hw.pmp_rw of them
\* hold bits, the others are hardwired to zero (their fields are WARL).
PmpEntryHardwired(n) == n >= hw.pmp_rw

\* The address register keeps hw.pmp_abits bits.
CsrWritePmpAddr(addr, cfg, n, v) ==
    IF PmpAddrLocked(cfg, n) \/ PmpEntryHardwired(n) THEN addr
    ELSE [addr EXCEPT ![n] = v % Pow2(hw.pmp_abits)]

\* With granularity 2^(G+2): bits G-1..0 read as zero in OFF/TOR mode, bits
\* G-2..0 read as one in NA4/NAPOT mode.
CsrReadPmpAddr(addr, cfg, n) ==
    LET G == hw.pmp_g
    IN  IF "A1" \in cfg[n]
        THEN IF G >= 2
             THEN (addr[n] \div Pow2(G - 1)) * Pow2(G - 1) + Pow2(G - 1) - 1
             ELSE addr[n]
        ELSE (addr[n] \div Pow2(G)) * Pow2(G)

\* The eight config bytes of PMPCFG<c>; bytes of entries the hart lacks read 0.
CsrReadPmpCfg(cfg, c) ==
    [b \in 0..7 |-> IF c * 4 + b < hw.npmp THEN cfg[c * 4 + b] ELSE {}]

\* A config byte whose lock bit is set ignores writes.
CsrWritePmpCfg(cfg, c, word) ==
    [n \in DOMAIN cfg |->
        IF n \in (c * 4)..(c * 4 + 7) /\ "L" \notin cfg[n] /\
           ~PmpEntryHardwired(n)
        THEN word[n - c * 4] \cap CfgByteBits
        ELSE cfg[n]]

\* "encode PMP config" and "write csrs": read PMPCFG, replace entry n's byte
\* by prot, write PMPADDR<n>, write PMPCFG.  s.touched collects the entries a
\* CSR write was issued for; an access to a CSR the hart lacks traps.
PmpWriteEntry(s, n, prot, paddr) ==
    LET c == PmpCfgCsr(n)
        b == PmpCfgShift(n) \div 8
    IN  IF s.trap THEN s
        ELSE IF ~PmpCfgCsrExists(c) THEN [s EXCEPT !.trap = TRUE]
        ELSE IF ~PmpAddrCsrExists(n)
             THEN [s EXCEPT !.trap = TRUE, !.touched = @ \cup {n}]
        ELSE LET word == [CsrReadPmpCfg(s.cfg, c) EXCEPT ![b] = prot]
                 a1 == CsrWritePmpAddr(s.addr, s.cfg, n, paddr)
             IN  [s EXCEPT !.addr = a1,
                           !.cfg = CsrWritePmpCfg(s.cfg, c, word),
                           !.touched = @ \cup {n}]

\* protected_start / protected_end of pmp_set_tor.
TorProtected(a) == ClearBit(a \div Pow2(PMP_SHIFT), Log2Exact(NAPOT_SIZE \div 8))

pmp_set_tor(s, n, prot, addr_start, addr_end) ==
    LET s1 == PmpWriteEntry(s, n, prot \ PMP_A, TorProtected(addr_start))
    IN  PmpWriteEntry(s1, n + 1, (prot \ PMP_A) \cup PMP_A_TOR,
                      TorProtected(addr_end))

\* pmp_set of lib/sbi/riscv_asm.c: one NA4/NAPOT entry.
NapotAddr(addr, log2len) ==
    IF log2len = PMP_SHIFT THEN addr \div Pow2(PMP_SHIFT)
    ELSE LET m == Pow2(log2len - PMP_SHIFT)
         IN  ((addr \div Pow2(PMP_SHIFT)) \div m) * m + (m \div 2 - 1)

pmp_set(s, n, prot, addr, log2len) ==
    IF n >= PMP_PROBE_MAX \/ log2len > XLEN \/ log2len < PMP_SHIFT THEN s
    ELSE PmpWriteEntry(s, n,
             (prot \ PMP_A) \cup
                 (IF log2len = PMP_SHIFT THEN PMP_A_NA4 ELSE PMP_A_NAPOT),
             NapotAddr(addr, log2len))

\* ------------------------------------------- sbi_hart_pmp_configure
\* pmp_flags of a region.
PmpFlags(reg) ==
    (IF "READABLE" \in reg.flags THEN PMP_R ELSE {}) \cup
    (IF "WRITEABLE" \in reg.flags THEN PMP_W ELSE {}) \cup
    (IF "EXECUTABLE" \in reg.flags THEN PMP_X ELSE {}) \cup
    (IF "MMODE" \in reg.flags THEN PMP_L ELSE {})

\* pmp_idx after a NAPOT region (pmp_idx++) and after a top-of-range region
\* (pmp_idx += 2) programmed at pmp_idx.
NapotNextIdx(pmp_idx) == pmp_idx + 1
\* (Advancing by one only would hand the end entry of a top-of-range region
\* to the next region: the variant C5 is told apart from.)
TorNextIdxOne(pmp_idx) == pmp_idx + 1
TorNextIdx(pmp_idx) == pmp_idx + 2

\* The loop's exit test.
PmpSlotsExhausted(pmp_count, pmp_idx) == pmp_count <= pmp_idx

\* The test a NAPOT region must pass to be programmed.
NapotFits(reg, pmp_gran_log2, pmp_addr_max) ==
    /\ pmp_gran_log2 <= reg.order
    /\ reg.base \div Pow2(PMP_SHIFT) < pmp_addr_max

\* The body of sbi_domain_for_each_memregion from region i on.  s carries the
\* PMP registers, pmp_idx, and the record of what was done: placed (region i
\* was handed to pmp_set / pmp_set_tor at slot n), skipped (the diagnostic was
\* printed for region i), visited (regions the loop body ran for).
RECURSIVE PmpLoop(_, _, _, _, _, _)
PmpLoop(s, regions, i, pmp_count, pmp_gran_log2, pmp_addr_max) ==
    IF i > Len(regions) \/ s.trap THEN s
    ELSE IF PmpSlotsExhausted(pmp_count, s.idx) THEN s
    ELSE
      LET reg == regions[i]
          pmp_flags == PmpFlags(reg)
          v == [s EXCEPT !.visited = @ \cup {i}]
          next ==
            IF reg.tor = 0
            THEN IF NapotFits(reg, pmp_gran_log2, pmp_addr_max)
                 THEN [pmp_set(v, v.idx, pmp_flags, reg.base, reg.order)
                          EXCEPT !.idx = NapotNextIdx(@),
                                 !.placed = Append(@, [ri |-> i, slot |-> v.idx,
                                                       tor |-> FALSE])]
                 ELSE [v EXCEPT !.skipped = @ \cup {i}]
            ELSE [pmp_set_tor(v, v.idx, pmp_flags, reg.base, reg.base + reg.tor)
                     EXCEPT !.idx = TorNextIdx(@),
                            !.placed = Append(@, [ri |-> i, slot |-> v.idx,
                                                  tor |-> TRUE])]
      IN  PmpLoop(next, regions, i + 1, pmp_count, pmp_gran_log2, pmp_addr_max)

PmpStart(addr, cfg) ==
    [addr |-> addr, cfg |-> cfg, trap |-> FALSE, touched |-> {}, idx |-> 0,
     placed |-> <<>>, skipped |-> {}, visited |-> {}]

\* sbi_hart_pmp_configure on the registers (addr, cfg) with the record rec.
PmpConfigureRun(rec, addr, cfg, regions) ==
    IF rec.pmp_count = 0 THEN PmpStart(addr, cfg)
    ELSE LET pmp_gran_log2 == log2roundup(rec.pmp_gran)
             pmp_bits == rec.pmp_addr_bits - 1
             pmp_addr_max == Pow2(pmp_bits) + (Pow2(pmp_bits) - 1)
         IN  PmpLoop(PmpStart(addr, cfg), regions, 1, rec.pmp_count,
                     pmp_gran_log2, pmp_addr_max)

\* The firmware's boot sequence runs sbi_hart_pmp_configure once per hart boot.
sbi_hart_pmp_configure(regions) ==
    /\ pc = "run"
    /\ ~pmp_done
    /\ \E r \in {PmpConfigureRun(hfeatures, pmpaddr, pmpcfg, regions)} :
           /\ pmpaddr' = r.addr
           /\ pmpcfg' = r.cfg
           /\ pmp_call' = [regions |-> regions, rec |-> hfeatures,
                           placed |-> r.placed, skipped |-> r.skipped,
                           visited |-> r.visited, touched |-> r.touched,
                           idx |-> r.idx, trap |-> r.trap,
                           rc |-> IF r.trap THEN "none" ELSE "0",
                           addr0 |-> pmpaddr, cfg0 |-> pmpcfg,
                           addr |-> r.addr, cfg |-> r.cfg]
           /\ pc' = IF r.trap THEN "trap" ELSE "run"
           /\ rc' = IF r.trap THEN rc ELSE 0
    /\ pmp_done' = TRUE
    /\ UNCHANGED <<features_str, hw, hfeatures, expected_trap, mhpmcounter, csr, fp_cleared,
                   regs, detect_log, reinit_log, switch_req>>

\* --------------------------------------------- hart_detect_features
PMP_ADDR_MASK == Pow2(RegBits) - 1
AllOnes == Pow2(RegBits) - 1

\* One CSR access of a detection run: the CSR, how it was made
\* (csr_read_allowed, csr_write_allowed, or the unguarded csr_swap), and
\* whether the hart has the CSR (an access to a CSR it lacks traps).
Access(name, n, how, ok) == [csr |-> <<name, n>>, how |-> how, ok |-> ok]

\* hart_pmp_get_allowed_addr: val, the registers it leaves, its accesses.
hart_pmp_get_allowed_addr(addr, cfg) ==
    IF ~PmpCfgCsrExists(0)
    THEN [val |-> 0, addr |-> addr, cfg |-> cfg,
          acc |-> <<Access("pmpcfg", 0, "write_allowed", FALSE)>>]
    ELSE LET cfg1 == CsrWritePmpCfg(cfg, 0, [b \in 0..7 |-> {}])
         IN  IF ~PmpAddrCsrExists(0)
             THEN [val |-> 0, addr |-> addr, cfg |-> cfg1,
                   acc |-> <<Access("pmpcfg", 0, "write_allowed", TRUE),
                             Access("pmpaddr", 0, "write_allowed", FALSE)>>]
             ELSE LET a1 == CsrWritePmpAddr(addr, cfg1, 0, PMP_ADDR_MASK)
                  IN  [val |-> CsrReadPmpAddr(a1, cfg1, 0), addr |-> a1,
                       cfg |-> cfg1,
                       acc |-> <<Access("pmpcfg", 0, "write_allowed", TRUE),
                                 Access("pmpaddr", 0, "write_allowed", TRUE),
                                 Access("pmpaddr", 0, "read_allowed", TRUE)>>]

\* The accesses of one __check_csr whose read and write did not trap.
CheckedAccesses(name, n) ==
    <<Access(name, n, "read_allowed", TRUE),
      Access(name, n, "write_allowed", TRUE),
      Access(name, n, "swap", TRUE)>>

\* __check_csr_64(CSR_PMPADDR0, 0, val, pmp_count, __pmp_skip) from register i
\* on.  The macro's __wrval is the variable val, which its first statement
\* sets to the register's own content.
RECURSIVE PmpCountLoop(_, _, _, _)
PmpCountLoop(addr, cfg, i, count) ==
    IF i >= PMP_PROBE_MAX THEN [addr |-> addr, count |-> count, acc |-> <<>>]
    ELSE IF ~PmpAddrCsrExists(i)
    THEN [addr |-> addr, count |-> count,
          acc |-> <<Access("pmpaddr", i, "read_allowed", FALSE)>>]
    ELSE LET val == CsrReadPmpAddr(addr, cfg, i)
             a1 == CsrWritePmpAddr(addr, cfg, i, val)
             old == CsrReadPmpAddr(a1, cfg, i)
             a2 == CsrWritePmpAddr(a1, cfg, i, val)
         IN  IF old = val
             THEN [PmpCountLoop(a2, cfg, i + 1, count + 1)
                      EXCEPT !.acc = CheckedAccesses("pmpaddr", i) \o @]
             ELSE [addr |-> a2, count |-> count,
                   acc |-> CheckedAccesses("pmpaddr", i)]

\* MHPMCOUNTER<3+i>: the hart has hw.mhpm_acc accessible counters, the first
\* hw.mhpm_rw of them hold hw.mhpm_w bits, the others are hardwired to zero.
MhpmCsrExists(i) == i < hw.mhpm_acc
CsrWriteMhpm(m, i, v) ==
    IF i < hw.mhpm_rw THEN [m EXCEPT ![i] = v % Pow2(hw.mhpm_w)] ELSE m

\* (A __check_csr that restores the counter with csr_swap although the
\* guarded read trapped: the variant C13 is told apart from.)
MhpmCheckUnguarded(m, i) ==
    IF ~MhpmCsrExists(i)
    THEN [ok |-> FALSE, m |-> m,
          acc |-> <<Access("mhpmcounter", 3 + i, "read_allowed", FALSE),
                    Access("mhpmcounter", 3 + i, "swap", FALSE)>>]
    ELSE [ok |-> (CsrWriteMhpm(m, i, 1)[i] = 1), m |-> m,
          acc |-> CheckedAccesses("mhpmcounter", 3 + i)]

\* __check_csr(CSR_MHPMCOUNTER3 + i, 0, 1UL, mhpm_count, __mhpm_skip)
MhpmCheck(m, i) ==
    IF ~MhpmCsrExists(i)
    THEN [ok |-> FALSE, m |-> m,
          acc |-> <<Access("mhpmcounter", 3 + i, "read_allowed", FALSE)>>]
    ELSE LET val == m[i]
             m1 == CsrWriteMhpm(m, i, 1)
             old == m1[i]
         IN  [ok |-> (old = 1), m |-> CsrWriteMhpm(m1, i, val),
              acc |-> CheckedAccesses("mhpmcounter", 3 + i)]

\* hart_pmu_get_allowed_bits
hart_pmu_get_allowed_bits(m) ==
    IF ~MhpmCsrExists(0)
    THEN [bits |-> XLEN, m |-> m,
          acc |-> <<Access("mhpmcounter", 3, "write_allowed", FALSE)>>]
    ELSE LET m1 == CsrWriteMhpm(m, 0, AllOnes)
         IN  [bits |-> Fls(m1[0]) + 1, m |-> m1,
              acc |-> <<Access("mhpmcounter", 3, "write_allowed", TRUE),
                        Access("mhpmcounter", 3, "read_allowed", TRUE)>>]

\* __check_csr_4(CSR_MHPMCOUNTER4 ..), _8(8 ..), _16(16 ..): counters 4 .. 31.
RECURSIVE MhpmCountLoop(_, _, _)
MhpmCountLoop(m, i, count) ==
    IF i >= MHPM_PROBE_MAX THEN [m |-> m, count |-> count, acc |-> <<>>]
    ELSE LET r == MhpmCheck(m, i)
         IN  IF r.ok
             THEN [MhpmCountLoop(r.m, i + 1, count + 1) EXCEPT !.acc = r.acc \o @]
             ELSE [m |-> r.m, count |-> count, acc |-> r.acc]

\* "attempt read; if it does not trap, attempt a write-back of the same value".
CsrReadAllowed(name) == name \in hw.csrs
CsrWriteAllowed(name) == name \in hw.csrs /\ name \notin hw.rdonly
FeatureIf(name, flag) ==
    IF CsrReadAllowed(name) /\ CsrWriteAllowed(name) THEN flag ELSE {}

\* The accesses of the flag detection: a guarded read, and a guarded write
\* when the read did not trap (a guarded read only for SCOUNTOVF and TIME).
FeatureAccesses(name) ==
    IF CsrReadAllowed(name)
    THEN <<Access(name, 0, "read_allowed", TRUE),
           Access(name, 0, "write_allowed", CsrWriteAllowed(name))>>
    ELSE <<Access(name, 0, "read_allowed", FALSE)>>

DetectFlagsAccesses ==
    FeatureAccesses("scounteren") \o FeatureAccesses("mcounteren") \o
    FeatureAccesses("mcountinhibit") \o
    (IF FeatureIf("mcountinhibit", SBI_HART_HAS_MCOUNTINHIBIT) # {} /\
        FeatureIf("mcounteren", SBI_HART_HAS_MCOUNTEREN) # {}
     THEN <<Access("scountovf", 0, "read_allowed", CsrReadAllowed("scountovf"))>>
     ELSE <<>>) \o
    <<Access("time", 0, "read_allowed", CsrReadAllowed("time"))>>

DetectFlags ==
    LET f3 == FeatureIf("scounteren", SBI_HART_HAS_SCOUNTEREN) \cup
              FeatureIf("mcounteren", SBI_HART_HAS_MCOUNTEREN) \cup
              FeatureIf("mcountinhibit", SBI_HART_HAS_MCOUNTINHIBIT)
        f4 == IF /\ SBI_HART_HAS_MCOUNTINHIBIT \subseteq f3
                 /\ SBI_HART_HAS_MCOUNTEREN \subseteq f3
                 /\ CsrReadAllowed("scountovf")
              THEN f3 \cup SBI_HART_HAS_SSCOFPMF ELSE f3
    IN  IF CsrReadAllowed("time") THEN f4 \cup SBI_HART_HAS_TIME ELSE f4

\* The PMP part: lines 569-576.
DetectPmp(rec, addr, cfg) ==
    LET g == hart_pmp_get_allowed_addr(addr, cfg)
    IN  IF g.val # 0
        THEN LET l == PmpCountLoop(g.addr, g.cfg, 0, rec.pmp_count)
             IN  [rec |-> [rec EXCEPT !.pmp_gran = Pow2(Ffs(g.val) + 2),
                                      !.pmp_addr_bits = Fls(g.val) + 1,
                                      !.pmp_count = l.count],
                  addr |-> l.addr, cfg |-> g.cfg, acc |-> g.acc \o l.acc,
                  val |-> g.val]
        ELSE [rec |-> rec, addr |-> g.addr, cfg |-> g.cfg, acc |-> g.acc,
              val |-> g.val]

\* The counter part: lines 578-591.
DetectMhpm(rec, m) ==
    LET c3 == MhpmCheck(m, 0)
    IN  IF ~c3.ok THEN [rec |-> rec, m |-> c3.m, acc |-> c3.acc]
        ELSE LET b == hart_pmu_get_allowed_bits(c3.m)
                 l == MhpmCountLoop(b.m, 1, rec.mhpm_count + 1)
             IN  [rec |-> [rec EXCEPT !.mhpm_bits = b.bits,
                                      !.mhpm_count = l.count],
                  m |-> l.m, acc |-> c3.acc \o b.acc \o l.acc]

\* "Reset hart features"
ResetRecord(rec) ==
    [rec EXCEPT !.features = {}, !.pmp_count = 0, !.mhpm_count = 0]

hart_detect_features(rec, addr, cfg, m) ==
    LET p == DetectPmp(ResetRecord(rec), addr, cfg)
        h == DetectMhpm(p.rec, m)
    IN  [rec |-> [h.rec EXCEPT !.features = @ \cup DetectFlags],
         addr |-> p.addr, cfg |-> p.cfg, m |-> h.m, val |-> p.val,
         acc |-> p.acc \o h.acc \o DetectFlagsAccesses]

\* ------------------------------------------------- sbi_hart_reinit
sbi_hart_has_feature(rec, feature) == rec.features \cap feature # {}

\* csr_write(CSR_MSTATUS, v): FS and VS keep a value only where the hart
\* implements the field.
CsrWriteMstatus(c, v) ==
    [c EXCEPT !.mstatus = [v EXCEPT !.FS = IF hw.fs_ok THEN v.FS ELSE 0,
                                    !.VS = IF "V" \in hw.misa THEN v.VS ELSE 0]]

MSTATUS_FS == 3
MSTATUS_VS == 3

mstatus_init(c, rec) ==
    LET mstatus_val ==
            [FS |-> IF misa_extension("D") \/ misa_extension("F")
                    THEN MSTATUS_FS ELSE 0,
             VS |-> IF misa_extension("V") THEN MSTATUS_VS ELSE 0,
             MPP |-> 0, MPIE |-> 0, MPV |-> 0, rest |-> {}]
        c1 == CsrWriteMstatus(c, mstatus_val)
        c2 == IF misa_extension("S") /\
                 sbi_hart_has_feature(rec, SBI_HART_HAS_SCOUNTEREN)
              THEN [c1 EXCEPT !.scounteren = {0, 1, 2}] ELSE c1
        c3 == IF sbi_hart_has_feature(rec, SBI_HART_HAS_MCOUNTEREN)
              THEN [c2 EXCEPT !.mcounteren = 0..(XLEN - 1)] ELSE c2
        c4 == IF sbi_hart_has_feature(rec, SBI_HART_HAS_MCOUNTINHIBIT)
              THEN [c3 EXCEPT !.mcountinhibit = 3..31] ELSE c3
        c5 == [c4 EXCEPT !.mie = {}]
    IN  IF misa_extension("S") THEN [c5 EXCEPT !.satp = 0] ELSE c5

\* fp_init: the return code, the CSRs, and whether the FP state was cleared.
fp_init(c) ==
    IF ~misa_extension("D") /\ ~misa_extension("F")
    THEN [rc |-> 0, csr |-> c, cleared |-> FALSE]
    ELSE IF c.mstatus.FS = 0
    THEN [rc |-> SBI_EINVAL, csr |-> c, cleared |-> FALSE]
    ELSE [rc |-> 0, csr |-> [c EXCEPT !.fcsr = 0], cleared |-> TRUE]

\* The interrupts and exceptions delegate_traps computes.
DelegInterrupts(rec) ==
    (MIP_SSIP \cup MIP_STIP \cup MIP_SEIP) \cup
    (IF sbi_hart_has_feature(rec, SBI_HART_HAS_SSCOFPMF) THEN MIP_LCOFIP ELSE {})

DelegExceptions ==
    {"MISALIGNED_FETCH", "BREAKPOINT", "USER_ECALL"} \cup
    (IF hw.mfaults
     THEN {"FETCH_PAGE_FAULT", "LOAD_PAGE_FAULT", "STORE_PAGE_FAULT"} ELSE {}) \cup
    (IF misa_extension("H")
     THEN {"VIRTUAL_SUPERVISOR_ECALL", "FETCH_GUEST_PAGE_FAULT",
           "LOAD_GUEST_PAGE_FAULT", "VIRTUAL_INST_FAULT",
           "STORE_GUEST_PAGE_FAULT"} ELSE {})

\* Two variants delegate_traps is told apart from: one that clears the
\* delegation CSRs of a hart without supervisor mode (C6), one that ORs the
\* computed sets into what the CSRs hold (C7).
delegate_traps_clearing(c, rec) ==
    IF ~misa_extension("S") THEN [c EXCEPT !.mideleg = {}, !.medeleg = {}]
    ELSE [c EXCEPT !.mideleg = DelegInterrupts(rec),
                   !.medeleg = DelegExceptions]
delegate_traps_merging(c, rec) ==
    IF ~misa_extension("S") THEN c
    ELSE [c EXCEPT !.mideleg = @ \cup DelegInterrupts(rec),
                   !.medeleg = @ \cup DelegExceptions]

delegate_traps(c, rec) ==
    IF ~misa_extension("S") THEN c
    ELSE [c EXCEPT !.mideleg = DelegInterrupts(rec),
                   !.medeleg = DelegExceptions]

\* (A reinit that runs the floating-point initializer before mode
\* initialization, the variant C15 is told apart from.)
ReinitRunFpFirst(c, rec) ==
    LET f == fp_init(c)
    IN  IF f.rc # 0 THEN [rc |-> f.rc, csr |-> f.csr, cleared |-> FALSE]
        ELSE [rc |-> 0, csr |-> delegate_traps(mstatus_init(f.csr, rec), rec),
              cleared |-> f.cleared]

\* mstatus_init, fp_init, delegate_traps: rc, the CSRs, the FP state.
ReinitRun(c, rec) ==
    LET c1 == mstatus_init(c, rec)
        f == fp_init(c1)
    IN  IF f.rc # 0 THEN [rc |-> f.rc, csr |-> f.csr, cleared |-> FALSE]
        ELSE [rc |-> 0, csr |-> delegate_traps(f.csr, rec), cleared |-> f.cleared]

sbi_hart_reinit ==
    /\ pc = "run"
    /\ \E r \in {ReinitRun(csr, hfeatures)} :
           /\ csr' = r.csr
           /\ rc' = r.rc
           /\ fp_cleared' = (fp_cleared \/ r.cleared)
    /\ reinit_log' = [ran |-> TRUE, delegated |-> (rc' = 0),
                      mideleg0 |-> csr.mideleg, medeleg0 |-> csr.medeleg]
    /\ UNCHANGED <<features_str, hw, pc, hfeatures, expected_trap, pmpaddr, pmpcfg, mhpmcounter,
                   regs, pmp_done, pmp_call, detect_log, switch_req>>

\* --------------------------------------------------- sbi_hart_init
\* An unguarded access to a CSR the hart lacks is a trap nobody expects:
\* hart_detect_features does not return.
DetectFaults(acc) ==
    \E k \in 1..Len(acc) : acc[k].how = "swap" /\ ~acc[k].ok

\* cold_boot on the first call of a hart; alloc_ok: sbi_scratch_alloc_offset
\* found room for the record.
sbi_hart_init(cold_boot, alloc_ok) ==
    /\ pc = (IF cold_boot THEN "boot" ELSE "run")
    /\ detect_log.runs < MaxDetect
    /\ expected_trap' = IF cold_boot /\ misa_extension("H")
                        THEN "__sbi_expected_trap_hext" ELSE expected_trap
    /\ IF cold_boot /\ ~alloc_ok
       THEN /\ rc' = SBI_ENOMEM
            /\ pc' = "boot_failed"
            /\ UNCHANGED <<hfeatures, pmpaddr, pmpcfg, mhpmcounter, csr,
                           fp_cleared, detect_log, reinit_log>>
       ELSE \E d \in {hart_detect_features(hfeatures, pmpaddr, pmpcfg,
                                            mhpmcounter)} :
            \E r \in {ReinitRun(csr, d.rec)} :
                /\ hfeatures' = d.rec
                /\ pmpaddr' = d.addr
                /\ pmpcfg' = d.cfg
                /\ mhpmcounter' = d.m
                /\ detect_log' =
                       [runs |-> detect_log.runs + 1,
                        first |-> IF detect_log.runs = 0 THEN d.rec
                                  ELSE detect_log.first,
                        before |-> hfeatures,
                        acc |-> d.acc, val |-> d.val]
                /\ IF DetectFaults(d.acc)
                   THEN /\ pc' = "trap"
                        /\ UNCHANGED <<csr, rc, fp_cleared, reinit_log>>
                   ELSE /\ csr' = r.csr
                        /\ rc' = r.rc
                        /\ fp_cleared' = (fp_cleared \/ r.cleared)
                        /\ pc' = "run"
                        /\ reinit_log' =
                               [ran |-> TRUE, delegated |-> (r.rc = 0),
                                mideleg0 |-> csr.mideleg,
                                medeleg0 |-> csr.medeleg]
    /\ UNCHANGED <<features_str, hw, regs, pmp_done, pmp_call, switch_req>>

\* ---------------------------------------------- sbi_hart_switch_mode
\* INSERT_FIELD(val, MSTATUS_<f>, x)
INSERT_FIELD(val, f, x) == [val EXCEPT ![f] = x]

\* (A switch without the default case, the variant C8 is told apart from.)
SwitchHangsNoDefault(next_mode) ==
    \/ next_mode = PRV_S /\ ~misa_extension("S")
    \/ next_mode = PRV_U /\ ~misa_extension("U")

\* The switch on next_mode: TRUE when sbi_hart_hang is called.
SwitchHangs(next_mode) ==
    IF next_mode = PRV_M THEN FALSE
    ELSE IF next_mode = PRV_S THEN ~misa_extension("S")
    ELSE IF next_mode = PRV_U THEN ~misa_extension("U")
    ELSE TRUE

\* (The writes without those of the supervisor target's STVEC and SSCRATCH,
\* the variant C9 is told apart from.)
SwitchCsrsNoStvec(c, next_addr, next_mode, next_virt) ==
    LET v1 == INSERT_FIELD(c.mstatus, "MPP", next_mode)
        v2 == INSERT_FIELD(v1, "MPIE", 0)
        v3 == IF misa_extension("H")
              THEN INSERT_FIELD(v2, "MPV", IF next_virt THEN 1 ELSE 0)
              ELSE v2
        c1 == [c EXCEPT !.mstatus = v3, !.mepc = next_addr]
    IN  IF next_mode = PRV_S THEN [c1 EXCEPT !.sie = {}, !.satp = 0] ELSE c1

\* The CSR writes between the switch and mret.
SwitchCsrs(c, next_addr, next_mode, next_virt) ==
    LET v1 == INSERT_FIELD(c.mstatus, "MPP", next_mode)
        v2 == INSERT_FIELD(v1, "MPIE", 0)
        v3 == IF misa_extension("H")
              THEN INSERT_FIELD(v2, "MPV", IF next_virt THEN 1 ELSE 0)
              ELSE v2
        c1 == [c EXCEPT !.mstatus = v3, !.mepc = next_addr]
    IN  IF next_mode = PRV_S
        THEN [c1 EXCEPT !.stvec = next_addr, !.sscratch = 0, !.sie = {},
                        !.satp = 0]
        ELSE IF next_mode = PRV_U /\ misa_extension("N")
        THEN [c1 EXCEPT !.utvec = next_addr, !.uscratch = 0, !.uie = {}]
        ELSE c1

sbi_hart_switch_mode(arg0, arg1, next_addr, next_mode, next_virt) ==
    /\ pc = "run"
    /\ switch_req' = [called |-> TRUE, arg0 |-> arg0, arg1 |-> arg1,
                      next_addr |-> next_addr, next_mode |-> next_mode,
                      next_virt |-> next_virt]
    /\ IF SwitchHangs(next_mode)
       THEN /\ pc' = "hang"
            /\ UNCHANGED <<csr, regs>>
       ELSE /\ csr' = SwitchCsrs(csr, next_addr, next_mode, next_virt)
            /\ regs' = [regs EXCEPT !.a0 = arg0, !.a1 = arg1]
            /\ pc' = "mret"
    /\ UNCHANGED <<features_str, hw, rc, hfeatures, expected_trap, pmpaddr, pmpcfg,
                   mhpmcounter, fp_cleared, pmp_done, pmp_call, detect_log,
                   reinit_log>>

\* The mret instruction: the hart continues at MEPC in privilege MPP.
mret ==
    /\ pc = "mret"
    /\ pc' = "next_stage"
    /\ regs' = [regs EXCEPT !.priv = csr.mstatus.MPP, !.virt = csr.mstatus.MPV,
                            !.pcaddr = csr.mepc]
    /\ csr' = [csr EXCEPT !.mstatus.MPIE = 1, !.mstatus.MPV = 0,
                          !.mstatus.MPP = IF misa_extension("U") THEN PRV_U
                                          ELSE PRV_M,
                          !.mstatus.rest = IF csr.mstatus.MPIE = 1
                                           THEN @ \cup {"MIE"} ELSE @ \ {"MIE"}]
    /\ UNCHANGED <<features_str, hw, rc, hfeatures, expected_trap, pmpaddr, pmpcfg,
                   mhpmcounter, fp_cleared, pmp_done, pmp_call, detect_log,
                   reinit_log, switch_req>>

\* sbi_hart_hang: while (1) wfi();
sbi_hart_hang ==
    /\ pc = "hang"
    /\ UNCHANGED vars

\* --------------------------------------- sbi_hart_get_features_str
\* Strings are sequences of characters; NUL is the terminator.  The buffer
\* is the memory at features_str: mem holds the bytes the call has written
\* (by index from features_str), written their indices.
NUL == "NUL"
Chars(str) ==
    CASE str = "scounteren" -> <<"s", "c", "o", "u", "n", "t", "e", "r", "e", "n">>
      [] str = "mcounteren" -> <<"m", "c", "o", "u", "n", "t", "e", "r", "e", "n">>
      [] str = "mcountinhibit" ->
             <<"m", "c", "o", "u", "n", "t", "i", "n", "h", "i", "b", "i", "t">>
      [] str = "sscofpmf" -> <<"s", "s", "c", "o", "f", "p", "m", "f">>
      [] str = "time" -> <<"t", "i", "m", "e">>
      [] str = "none" -> <<"n", "o", "n", "e">>

\* feat = 1UL, feat << 1, ... up to SBI_HART_HAS_LAST_FEATURE.
FeatureBits ==
    <<SBI_HART_HAS_SCOUNTEREN, SBI_HART_HAS_MCOUNTEREN,
      SBI_HART_HAS_MCOUNTINHIBIT, SBI_HART_HAS_SSCOFPMF, SBI_HART_HAS_TIME>>

\* The name of a single feature bit, as a string.
sbi_hart_feature_id2string(feature) ==
    IF feature = SBI_HART_HAS_SCOUNTEREN THEN Chars("scounteren")
    ELSE IF feature = SBI_HART_HAS_MCOUNTEREN THEN Chars("mcounteren")
    ELSE IF feature = SBI_HART_HAS_MCOUNTINHIBIT THEN Chars("mcountinhibit")
    ELSE IF feature = SBI_HART_HAS_SSCOFPMF THEN Chars("sscofpmf")
    ELSE Chars("time")

sbi_strlen(str) == Len(str)

\* One byte stored at index i.
StoreByte(b, i, ch) ==
    [mem |-> (i :> ch) @@ b.mem,
     written |-> b.written \cup {i}]

RECURSIVE StoreBytes(_, _, _, _)
StoreBytes(b, at, str, n) ==
    IF n = 0 THEN b
    ELSE StoreByte(StoreBytes(b, at, str, n - 1), at + n - 1, str[n])

RECURSIVE sbi_memset(_, _, _)
sbi_memset(b, ch, count) ==
    IF count = 0 THEN b
    ELSE StoreByte(sbi_memset(b, ch, count - 1), count - 1, ch)

\* sbi_snprintf(features_str + at, out_sz, "%s,", temp): at most out_sz - 1
\* characters of the text, then the terminator.
sbi_snprintf(b, at, out_sz, text) ==
    LET n == IF Len(text) < out_sz - 1 THEN Len(text) ELSE out_sz - 1
    IN  StoreByte(StoreBytes(b, at, text, n), at + n, NUL)

\* sbi_strncpy(features_str, src, count): count bytes at most, the
\* terminator among them only when it fits.
sbi_strncpy(b, src, count) ==
    IF count > Len(src)
    THEN StoreByte(StoreBytes(b, 0, src, Len(src)), Len(src), NUL)
    ELSE StoreBytes(b, 0, src, count)

\* The do-while loop from feature bit k on: the buffer and offset.
RECURSIVE FeaturesLoop(_, _, _, _, _)
FeaturesLoop(b, offset, features, nfstr, k) ==
    IF k > Len(FeatureBits) THEN [b |-> b, offset |-> offset]
    ELSE IF features \cap FeatureBits[k] # {}
    THEN LET temp == sbi_hart_feature_id2string(FeatureBits[k])
         IN  FeaturesLoop(sbi_snprintf(b, offset, nfstr, temp \o <<",">>),
                          offset + sbi_strlen(temp) + 1, features, nfstr, k + 1)
    ELSE FeaturesLoop(b, offset, features, nfstr, k + 1)

FeaturesStrRun(features, nfstr) ==
    LET b0 == sbi_memset([mem |-> <<>>, written |-> {}], NUL, nfstr)
        l == IF features = {} THEN [b |-> b0, offset |-> 0]
             ELSE FeaturesLoop(b0, 0, features, nfstr, 1)
    IN  IF l.offset # 0 THEN StoreByte(l.b, l.offset - 1, NUL)
        ELSE sbi_strncpy(l.b, Chars("none"), nfstr)

sbi_hart_get_features_str(nfstr) ==
    /\ pc = "run"
    /\ IF nfstr <= 0
       THEN features_str' = [features_str EXCEPT !.called = TRUE, !.nfstr = nfstr]
       ELSE \E r \in {FeaturesStrRun(hfeatures.features, nfstr)} :
                features_str' = [called |-> TRUE, nfstr |-> nfstr,
                                 mem |-> r.mem, written |-> r.written]
    /\ UNCHANGED <<hw, pc, rc, hfeatures, expected_trap, pmpaddr, pmpcfg,
                   mhpmcounter, csr, fp_cleared, regs, pmp_done, pmp_call,
                   detect_log, reinit_log, switch_req>>

\* ------------------------------------------------- the modelled harts
FeatureCsrs == {"scounteren", "mcounteren", "mcountinhibit", "scountovf", "time"}

DefaultHart ==
    [misa |-> {"S", "U", "F", "D"}, mfaults |-> TRUE, fs_ok |-> TRUE,
     npmp |-> 2, pmp_rw |-> 2, pmpcfg_ok |-> TRUE, pmp_abits |-> 13, pmp_g |-> 0,
     mhpm_acc |-> 2, mhpm_rw |-> 2, mhpm_w |-> 8,
     csrs |-> FeatureCsrs, rdonly |-> {"scountovf", "time"}]

\* <<address bits, G>> of the PMP address registers: byte granularity 2^(G+2).
PmpShapes == {<<13, 0>>, <<13, 10>>, <<11, 0>>}

PmpHarts ==
    {[DefaultHart EXCEPT !.npmp = n, !.pmp_rw = n, !.pmp_abits = sh[1],
                         !.pmp_g = sh[2]] :
        n \in 0..MaxPmp, sh \in PmpShapes} \cup
    {[DefaultHart EXCEPT !.pmpcfg_ok = FALSE]}

\* Harts whose last PMP entries are accessible but hardwired to zero.
PmpZeroHarts ==
    {[DefaultHart EXCEPT !.npmp = t[1], !.pmp_rw = t[2]] :
        t \in {u \in (1..MaxPmp) \X (0..MaxPmp) : u[2] < u[1]}}

MhpmHarts ==
    {[DefaultHart EXCEPT !.mhpm_acc = t[1], !.mhpm_rw = t[2], !.mhpm_w = t[3]] :
        t \in {u \in (0..MaxMhpm) \X (0..MaxMhpm) \X {4, 8} : u[2] <= u[1]}}

CsrHarts ==
    {[DefaultHart EXCEPT !.csrs = c, !.rdonly = r] :
        c \in SUBSET FeatureCsrs,
        r \in {{"scountovf", "time"}, {"scountovf", "time", "mcounteren"}}}

MisaChoices ==
    {{}, {"U"}, {"U", "N"}, {"S", "U"}, {"S", "U", "H"}, {"S", "U", "F", "D"},
     {"S", "U", "F", "D", "V", "H"}, {"U", "F"}}

MisaHarts ==
    {[DefaultHart EXCEPT !.misa = m, !.mfaults = f, !.fs_ok = k, !.csrs = c] :
        m \in MisaChoices, f \in BOOLEAN, k \in BOOLEAN,
        c \in {FeatureCsrs, FeatureCsrs \ {"scountovf"}}}

\* The CSRs as reset leaves them (their reset value is not specified), in
\* two variants.
CleanCsr ==
    [mstatus |-> [FS |-> 0, VS |-> 0, MPP |-> 0, MPIE |-> 0, MPV |-> 0,
                  rest |-> {}],
     mie |-> {}, satp |-> 0, mideleg |-> {}, medeleg |-> {}, mepc |-> 0,
     stvec |-> 0, sscratch |-> 0, sie |-> {}, utvec |-> 0, uscratch |-> 0,
     uie |-> {}, scounteren |-> {}, mcounteren |-> {}, mcountinhibit |-> {},
     fcsr |-> 0]

DirtyCsr ==
    [mstatus |-> [FS |-> 0, VS |-> 0, MPP |-> PRV_M, MPIE |-> 1, MPV |-> 1,
                  rest |-> {"MIE", "MPRV"}],
     mie |-> {"MSIE", "MTIE"}, satp |-> 1, mideleg |-> {"SSIP", "USIP"},
     medeleg |-> {"ILLEGAL_INSTRUCTION", "BREAKPOINT"}, mepc |-> 1,
     stvec |-> 1, sscratch |-> 1, sie |-> {"SSIE"}, utvec |-> 1,
     uscratch |-> 1, uie |-> {"USIE"}, scounteren |-> {3}, mcounteren |-> {3},
     mcountinhibit |-> {0}, fcsr |-> 1]

ZeroRecord ==
    [features |-> {}, pmp_count |-> 0, pmp_addr_bits |-> 0, pmp_gran |-> 0,
     mhpm_count |-> 0, mhpm_bits |-> 0]

NoPmpCall ==
    [regions |-> <<>>, rec |-> ZeroRecord, placed |-> <<>>, skipped |-> {},
     visited |-> {}, touched |-> {}, idx |-> 0, trap |-> FALSE, rc |-> "none",
     addr0 |-> <<>>, cfg0 |-> <<>>, addr |-> <<>>, cfg |-> <<>>]

NoBuffer == [called |-> FALSE, nfstr |-> 0, mem |-> <<>>, written |-> {}]

NoSwitch ==
    [called |-> FALSE, arg0 |-> 0, arg1 |-> 0, next_addr |-> 0,
     next_mode |-> PRV_M, next_virt |-> FALSE]

\* MIDELEG and MEDELEG exist on a hart that has a mode to delegate to (S, or
\* U with user-level interrupts); elsewhere there is nothing for them to hold.
ResetCsr(h, c) ==
    IF h.misa \cap {"S", "N"} # {} THEN c
    ELSE [c EXCEPT !.mideleg = {}, !.medeleg = {}]

InitOn(harts, csrs) ==
    /\ hw \in harts
    /\ csr \in {ResetCsr(hw, c) : c \in csrs}
    /\ pc = "boot"
    /\ rc = 0
    /\ hfeatures = ZeroRecord
    /\ expected_trap = "__sbi_expected_trap"
    /\ pmpaddr = [n \in 0..(hw.npmp - 1) |-> 0]
    /\ pmpcfg = [n \in 0..(hw.npmp - 1) |-> {}]
    /\ mhpmcounter = [n \in 0..(hw.mhpm_acc - 1) |-> 0]
    /\ fp_cleared = FALSE
    /\ regs = [a0 |-> 0, a1 |-> 0, priv |-> PRV_M, virt |-> 0, pcaddr |-> 0]
    /\ pmp_done = FALSE
    /\ pmp_call = NoPmpCall
    /\ detect_log = [runs |-> 0, first |-> ZeroRecord, before |-> ZeroRecord,
                     acc |-> <<>>]
    /\ reinit_log = [ran |-> FALSE, delegated |-> FALSE, mideleg0 |-> {},
                     medeleg0 |-> {}]
    /\ switch_req = NoSwitch
    /\ features_str = NoBuffer

\* ------------------------------------------------ the domain's regions
\* NAPOT regions have tor = 0; a top-of-range region ends at base + tor.
Region(base, order, tor, flags) ==
    [base |-> base, order |-> order, tor |-> tor, flags |-> flags]

RegionChoices ==
    {Region(4096, 12, 0, {"READABLE", "WRITEABLE", "EXECUTABLE"}),
     Region(0, 10, 0, {"READABLE"}),
     Region(8192, 12, 0, {"READABLE", "WRITEABLE", "MMODE"}),
     Region(4096, 12, 4096, {"READABLE", "EXECUTABLE"}),
     Region(2048, 12, 4096, {"READABLE", "WRITEABLE", "MMODE"})}

RegionLists == UNION {[1..n -> RegionChoices] : n \in 0..MaxRegions}

\* ------------------------------------------------------ specifications
\* Detection, initialisation and PMP configuration, over the harts that
\* differ in their PMP registers.
Init == InitOn(PmpHarts, {CleanCsr})

HartInit == \E cold_boot \in BOOLEAN, alloc_ok \in BOOLEAN :
                sbi_hart_init(cold_boot, alloc_ok)

PmpConfigure == \E regions \in RegionLists : sbi_hart_pmp_configure(regions)

Next == HartInit \/ sbi_hart_reinit \/ PmpConfigure

Spec == Init /\ [][Next]_vars

\* Detection, initialisation, delegation and the privilege switch, over the
\* harts that differ in their extensions, counters, feature CSRs and PMP, with
\* both variants of the CSRs at reset.
InitSwitch ==
    InitOn(MisaHarts \cup MhpmHarts \cup CsrHarts \cup PmpHarts \cup
               PmpZeroHarts,
           {CleanCsr, DirtyCsr})

SwitchMode ==
    \E arg0 \in {0, 1}, arg1 \in {2}, next_addr \in {4096, 8192},
       next_mode \in 0..4, next_virt \in BOOLEAN :
        sbi_hart_switch_mode(arg0, arg1, next_addr, next_mode, next_virt)

NextSwitch == HartInit \/ sbi_hart_reinit \/ SwitchMode \/ mret \/ sbi_hart_hang

SpecSwitch == InitSwitch /\ [][NextSwitch]_vars

\* The feature string renderer, over the harts that differ in their feature
\* CSRs, with buffers of 0 to MaxNfstr bytes.
InitStr == InitOn(CsrHarts, {CleanCsr})

GetFeaturesStr == \E nfstr \in 0..MaxNfstr : sbi_hart_get_features_str(nfstr)

NextStr == HartInit \/ GetFeaturesStr

SpecStr == InitStr /\ [][NextStr]_vars

\* =============================================================== properties
\* The last sbi_hart_pmp_configure call, read off its log.
Placed == {pmp_call.placed[j] : j \in 1..Len(pmp_call.placed)}
TorPlaced == {p \in Placed : p.tor}
RegionOf(p) == pmp_call.regions[p.ri]
SlotCost(p) == IF p.tor THEN 2 ELSE 1
SlotsOf(p) == p.slot..(p.slot + SlotCost(p) - 1)
PermBits(reg) ==
    {b \in {"R", "W", "X", "L"} :
        \/ b = "R" /\ "READABLE" \in reg.flags
        \/ b = "W" /\ "WRITEABLE" \in reg.flags
        \/ b = "X" /\ "EXECUTABLE" \in reg.flags
        \/ b = "L" /\ "MMODE" \in reg.flags}
RECURSIVE CostBefore(_)
CostBefore(j) ==
    IF j <= 1 THEN 0 ELSE CostBefore(j - 1) + SlotCost(pmp_call.placed[j - 1])

\* C1: sbi_hart_pmp_configure issues CSR writes only for PMP entries with
\* index < pmp_count, whatever the region list and the count, and returns 0.
C1_WritesOnlyBelowCount ==
    pmp_done =>
        /\ \A n \in pmp_call.touched : n < pmp_call.rec.pmp_count
        /\ pmp_call.rc = "0"

\* C2: for every top-of-range region programmed at entries n, n+1 (both
\* implemented, on a hart whose address registers are wide and fine enough to
\* hold the values), PMPADDR<n> = base >> 2 and PMPADDR<n+1> = (base + tor) >> 2
\* after the call.
C2_TorAddressesExact ==
    pmp_done =>
        \A p \in TorPlaced :
            LET reg == RegionOf(p)
            IN  (/\ p.slot + 1 < hw.npmp
                 /\ hw.pmp_g = 0
                 /\ (reg.base + reg.tor) \div 4 < Pow2(hw.pmp_abits))
                => /\ pmp_call.addr[p.slot] = reg.base \div 4
                   /\ pmp_call.addr[p.slot + 1] = (reg.base + reg.tor) \div 4

\* C3: for every top-of-range region programmed at entry n, entries n and n+1
\* are entries of the hart (below pmp_count) and after the call the config
\* byte of entry n holds the region's R/W/X/L bits with the A field
\* clear and the config byte of entry n+1 holds the same bits with A =
\* top-of-range.
C3_TorConfigBytes ==
    pmp_done =>
        \A p \in TorPlaced :
            /\ p.slot + 1 < pmp_call.rec.pmp_count
            /\ pmp_call.cfg[p.slot] = PermBits(RegionOf(p))
            /\ pmp_call.cfg[p.slot + 1] = PermBits(RegionOf(p)) \cup {"A0"}

\* C4's case: a NAPOT region whose order is below log2 of the granularity
\* in the record, or whose shifted base is not below the largest PMP address.
TooSmallNapot(reg) ==
    reg.tor = 0 /\ Pow2(reg.order) < pmp_call.rec.pmp_gran
OutOfRangeNapot(reg) ==
    reg.tor = 0 /\ reg.base \div 4 >= Pow2(pmp_call.rec.pmp_addr_bits) - 1

\* C4: a NAPOT region that is too small or out of range, when the loop comes
\* to it, is programmed into no entry and takes no slot index, the loop goes
\* on to the next region of the list, and the call returns 0.
C4_UnfitNapotSkipped ==
    pmp_done =>
        \A i \in pmp_call.visited :
            LET reg == pmp_call.regions[i]
            IN  (TooSmallNapot(reg) \/ OutOfRangeNapot(reg)) =>
                    /\ \A p \in Placed : p.ri # i
                    /\ i \in pmp_call.skipped
                    /\ i < Len(pmp_call.regions) => i + 1 \in pmp_call.visited
                    /\ pmp_call.rc = "0"

\* C5: the j-th programmed region starts at the entry whose index is the
\* summed slot cost (1 per NAPOT, 2 per top-of-range) of the regions
\* programmed before it; regions are programmed in list order at strictly
\* increasing entries; no entry is written for two regions, and every entry
\* written is one of a programmed region.
C5_SlotsInOrder ==
    pmp_done =>
        /\ \A j \in 1..Len(pmp_call.placed) :
              pmp_call.placed[j].slot = CostBefore(j)
        /\ \A j, k \in 1..Len(pmp_call.placed) :
              j < k => /\ pmp_call.placed[j].ri < pmp_call.placed[k].ri
                       /\ pmp_call.placed[j].slot < pmp_call.placed[k].slot
                       /\ SlotsOf(pmp_call.placed[j]) \cap
                              SlotsOf(pmp_call.placed[k]) = {}
        /\ pmp_call.touched \subseteq UNION {SlotsOf(p) : p \in Placed}

\* C5's case: a top-of-range region programmed first, a region of the list
\* skipped, and a NAPOT region programmed after them at entry 2.
C5_Witness ==
    /\ pmp_done
    /\ Len(pmp_call.placed) >= 2
    /\ pmp_call.placed[1].tor
    /\ ~pmp_call.placed[2].tor
    /\ pmp_call.placed[2].slot = 2
    /\ pmp_call.skipped # {}
    /\ pmp_call.rc = "0"

\* ------------------------------------------------------- delegation
Baseline_MIDELEG == {"SSIP", "STIP", "SEIP"}
Baseline_MEDELEG == {"MISALIGNED_FETCH", "BREAKPOINT", "USER_ECALL"}
PageFaults == {"FETCH_PAGE_FAULT", "LOAD_PAGE_FAULT", "STORE_PAGE_FAULT"}
GuestCauses ==
    {"VIRTUAL_SUPERVISOR_ECALL", "FETCH_GUEST_PAGE_FAULT",
     "LOAD_GUEST_PAGE_FAULT", "VIRTUAL_INST_FAULT", "STORE_GUEST_PAGE_FAULT"}

\* C6 as stated: after delegate_traps has run, MIDELEG and MEDELEG include
\* the baseline when the hart has supervisor mode and are zero when it has
\* not, whatever they held before.
C6_BaselineOrZero ==
    reinit_log.delegated =>
        IF "S" \in hw.misa
        THEN /\ Baseline_MIDELEG \subseteq csr.mideleg
             /\ Baseline_MEDELEG \subseteq csr.medeleg
        ELSE /\ csr.mideleg = {}
             /\ csr.medeleg = {}

\* C6, amended: after delegate_traps has run, MIDELEG and MEDELEG include
\* the baseline when the hart has supervisor mode, and hold what they held
\* before the call when it has not (delegate_traps writes neither).
C6_BaselineOrUntouched ==
    reinit_log.delegated =>
        IF "S" \in hw.misa
        THEN /\ Baseline_MIDELEG \subseteq csr.mideleg
             /\ Baseline_MEDELEG \subseteq csr.medeleg
        ELSE /\ csr.mideleg = reinit_log.mideleg0
             /\ csr.medeleg = reinit_log.medeleg0

\* C6's case: delegation has run on a hart without supervisor mode (a hart
\* with M, U and user-level interrupts) whose delegation CSRs held bits before.
C6_Witness ==
    /\ reinit_log.delegated
    /\ "S" \notin hw.misa
    /\ reinit_log.mideleg0 # {}
    /\ reinit_log.medeleg0 # {}

\* C7: with supervisor mode, after delegate_traps MIDELEG is the baseline
\* plus LCOFIP iff the record has SSCOFPMF, and MEDELEG is the baseline plus
\* the three page faults iff the platform delegates faults plus the five guest
\* causes iff the hart has H: nothing of the prior contents remains.
C7_DelegationOverwritten ==
    (reinit_log.delegated /\ "S" \in hw.misa) =>
        /\ csr.mideleg =
              Baseline_MIDELEG \cup
              (IF "sscofpmf" \in hfeatures.features THEN {"LCOFIP"} ELSE {})
        /\ csr.medeleg =
              Baseline_MEDELEG \cup
              (IF hw.mfaults THEN PageFaults ELSE {}) \cup
              (IF "H" \in hw.misa THEN GuestCauses ELSE {})

\* C7's case: delegation has run on a hart with S and H and the counter
\* overflow feature, on a platform without fault delegation, over CSRs that
\* held bits outside the computed sets.
C7_Witness ==
    /\ reinit_log.delegated
    /\ {"S", "H"} \subseteq hw.misa
    /\ ~hw.mfaults
    /\ "sscofpmf" \in hfeatures.features
    /\ "USIP" \in reinit_log.mideleg0
    /\ "ILLEGAL_INSTRUCTION" \in reinit_log.medeleg0

\* ------------------------------------------------- the privilege switch
InvalidSwitch ==
    \/ switch_req.next_mode = 1 /\ "S" \notin hw.misa
    \/ switch_req.next_mode = 0 /\ "U" \notin hw.misa
    \/ switch_req.next_mode \notin {0, 1, 3}

\* C8: a switch to S without the S extension, to U without the U extension,
\* or to any mode other than M, S, U is in the hang state from the call on:
\* the hang state is never left and mret is never reached.
C8_InvalidSwitchHangs ==
    /\ []((switch_req.called /\ InvalidSwitch) => pc = "hang")
    /\ [][pc = "hang" => pc' = "hang"]_vars

\* C8's case: the hart hangs after a switch to supervisor mode was asked of a
\* hart without the S extension.
C8_Witness ==
    /\ pc = "hang"
    /\ switch_req.next_mode = 1
    /\ "S" \notin hw.misa

\* What C9 says the CSRs and a0, a1 hold for the requested switch.
SwitchEffects ==
    /\ csr.mepc = switch_req.next_addr
    /\ regs.a0 = switch_req.arg0
    /\ regs.a1 = switch_req.arg1
    /\ switch_req.next_mode = 1 =>
           /\ csr.stvec = switch_req.next_addr
           /\ csr.sscratch = 0
           /\ csr.sie = {}
           /\ csr.satp = 0

\* C9: when the switch reaches mret, MPP = next_mode, MPIE = 0, MPV =
\* next_virt with the H extension, MEPC = next_addr, for a supervisor
\* target STVEC = next_addr and SSCRATCH = SIE = SATP = 0, and a0, a1 hold
\* arg0, arg1; mret then enters the next stage at next_addr in next_mode
\* with the same a0, a1, and the hart never runs the caller again.
C9_SwitchComplete ==
    /\ [](pc = "mret" =>
            /\ switch_req.called
            /\ csr.mstatus.MPP = switch_req.next_mode
            /\ csr.mstatus.MPIE = 0
            /\ "H" \in hw.misa =>
                   csr.mstatus.MPV = (IF switch_req.next_virt THEN 1 ELSE 0)
            /\ SwitchEffects)
    /\ [](pc = "next_stage" =>
            /\ regs.priv = switch_req.next_mode
            /\ regs.pcaddr = switch_req.next_addr
            /\ SwitchEffects)
    /\ [][(pc \in {"mret", "next_stage"}) => (pc' \in {"mret", "next_stage"})]_vars

\* C9's case: a switch to a virtualised supervisor target on a hart with H
\* is at mret, with a nonzero arg0.
C9_Witness ==
    /\ pc = "mret"
    /\ switch_req.next_mode = 1
    /\ switch_req.next_virt
    /\ "H" \in hw.misa
    /\ switch_req.arg0 = 1

\* -------------------------------------------------- feature detection
\* C10: every hart_detect_features run on the hart, also after
\* sbi_hart_reinit and sbi_hart_pmp_configure, leaves the record the first
\* run left, field by field.
C10_DetectIdempotent ==
    detect_log.runs >= 1 => hfeatures = detect_log.first

\* C11: the record a hart_detect_features run leaves depends on the CSRs the
\* run probes only, not on what the record held before: every run leaves the
\* record that a run over the same CSRs leaves when it starts from the
\* zero-filled record of a cold boot.
C11_NoStaleFields ==
    [][detect_log'.runs # detect_log.runs =>
           hart_detect_features(ZeroRecord, pmpaddr, pmpcfg, mhpmcounter).rec =
               hfeatures']_vars

\* ---------------------------------------------- the feature string
\* The text the record's features render to: the names of the set feature
\* bits in bit order, separated by commas, or "none".
RECURSIVE JoinNames(_, _)
JoinNames(features, k) ==
    IF k > 5 THEN <<>>
    ELSE LET name == <<"scounteren", "mcounteren", "mcountinhibit", "sscofpmf",
                       "time">>[k]
             rest == JoinNames(features, k + 1)
         IN  IF name \notin features THEN rest
             ELSE IF rest = <<>> THEN Chars(name)
             ELSE Chars(name) \o <<",">> \o rest
RenderedText ==
    IF hfeatures.features = {} THEN Chars("none")
    ELSE JoinNames(hfeatures.features, 1)

\* The indices below nfstr that hold the terminator after the call.
Terminators ==
    {i \in 0..(features_str.nfstr - 1) : features_str.mem[i] = NUL}
FirstTerminator == CHOOSE i \in Terminators : \A j \in Terminators : i <= j

\* C12: a call with nfstr > 0 writes no byte outside features_str[0 ..
\* nfstr-1], leaves a terminator below nfstr, and the string before the first
\* terminator is the rendered text, cut to nfstr - 1 characters when longer.
C12_FeaturesStrInBounds ==
    (features_str.called /\ features_str.nfstr > 0) =>
        /\ features_str.written \subseteq 0..(features_str.nfstr - 1)
        /\ Terminators # {}
        /\ LET n == IF Len(RenderedText) < features_str.nfstr - 1
                    THEN Len(RenderedText) ELSE features_str.nfstr - 1
           IN  /\ FirstTerminator = n
               /\ \A i \in 0..(n - 1) : features_str.mem[i] = RenderedText[i + 1]

\* ------------------------------------------------- guarded probing
DetectAccesses == {detect_log.acc[k] : k \in 1..Len(detect_log.acc)}
Trapped(name, n) ==
    \E a \in DetectAccesses : a.csr = <<name, n>> /\ ~a.ok

\* C13: hart_detect_features returns whatever CSRs the hart lacks: an
\* access that traps is a guarded one (csr_read_allowed, csr_write_allowed);
\* csr_swap is made only right after the guarded read and the guarded write
\* of the same CSR, neither of which trapped; a trapped probe leaves the
\* feature flag unset and the register uncounted.
C13_ProbesGuarded ==
    detect_log.runs >= 1 =>
        /\ pc # "trap"
        /\ \A a \in DetectAccesses :
              ~a.ok => a.how \in {"read_allowed", "write_allowed"}
        /\ \A k \in 1..Len(detect_log.acc) :
              detect_log.acc[k].how = "swap" =>
                  /\ k >= 3
                  /\ detect_log.acc[k - 2] =
                         [detect_log.acc[k] EXCEPT !.how = "read_allowed",
                                                   !.ok = TRUE]
                  /\ detect_log.acc[k - 1] =
                         [detect_log.acc[k] EXCEPT !.how = "write_allowed",
                                                   !.ok = TRUE]
        /\ \A name \in {"scounteren", "mcounteren", "mcountinhibit", "time"} :
              Trapped(name, 0) => name \notin hfeatures.features
        /\ Trapped("scountovf", 0) => "sscofpmf" \notin hfeatures.features
        /\ (Trapped("pmpcfg", 0) \/ Trapped("pmpaddr", 0)) =>
               hfeatures.pmp_count = 0
        /\ Trapped("mhpmcounter", 3) => hfeatures.mhpm_count = 0
        /\ \A i \in 0..MaxPmp : Trapped("pmpaddr", i) => hfeatures.pmp_count <= i
        /\ \A i \in 0..MaxMhpm :
              Trapped("mhpmcounter", 3 + i) => hfeatures.mhpm_count <= i

\* C13's case: a run on a hart that lacks MHPMCOUNTER4 and whose PMPADDR
\* probe trapped too has returned, after restoring a counter with csr_swap.
C13_Witness ==
    /\ detect_log.runs >= 1
    /\ pc = "run"
    /\ Trapped("mhpmcounter", 4)
    /\ \E i \in 0..MaxPmp : Trapped("pmpaddr", i)
    /\ \E a \in DetectAccesses : a.how = "swap" /\ a.csr = <<"mhpmcounter", 3>>


\* ------------------------------------------------------------ C14
Min(a, b) == IF a < b THEN a ELSE b

\* The consecutive registers from index 0 on that the hart implements: the
\* ones that hold bits (an entry hardwired to zero is not implemented).
ImplementedPmp == Min(hw.pmp_rw, PMP_PROBE_MAX)
ImplementedMhpm == Min(hw.mhpm_rw, MHPM_PROBE_MAX)

\* PMPCFG0 or PMPADDR0 is inaccessible, or PMPADDR0 read back zero.
PmpAbsent ==
    ~PmpCfgCsrExists(0) \/ ~PmpAddrCsrExists(0) \/ detect_log.val = 0

\* No access to a register of the family follows one that trapped.
StopsAtFirstTrap(name) ==
    \A j, k \in 1..Len(detect_log.acc) :
        (/\ j < k
         /\ detect_log.acc[j].csr[1] = name
         /\ ~detect_log.acc[j].ok)
            => detect_log.acc[k].csr[1] # name

\* C14: after hart_detect_features, pmp_count is the number of consecutive
\* implemented PMP address registers from PMPADDR0 on (at most 64, 0 when
\* PMPCFG0 or PMPADDR0 is inaccessible or PMPADDR0 reads back zero),
\* mhpm_count is the number of consecutive implemented counters from
\* MHPMCOUNTER3 on (at most 29, 0 when MHPMCOUNTER3 traps), and no register
\* of a family is accessed after the first one that trapped.
C14_CountsExact ==
    (detect_log.runs >= 1 /\ pc # "trap") =>
        /\ hfeatures.pmp_count = (IF PmpAbsent THEN 0 ELSE ImplementedPmp)
        /\ hfeatures.mhpm_count =
               (IF ~MhpmCsrExists(0) THEN 0 ELSE ImplementedMhpm)
        /\ StopsAtFirstTrap("pmpaddr")
        /\ StopsAtFirstTrap("mhpmcounter")


\* ------------------------------------------------------------ C15
\* A step in which sbi_hart_reinit ran: called directly, or at the end of an
\* sbi_hart_init that got past the allocation and the detection.
ReinitStep ==
    \/ sbi_hart_reinit
    \/ detect_log'.runs # detect_log.runs /\ pc' = "run"

\* The hart has F or D and MSTATUS does not show FS after mstatus_init.
FsMissing ==
    /\ misa_extension("F") \/ misa_extension("D")
    /\ mstatus_init(csr, hfeatures').mstatus.FS = 0

\* C15: sbi_hart_reinit (and sbi_hart_init through it) returns SBI_EINVAL
\* when the hart has F or D and MSTATUS does not show FS after mode
\* initialization, and then has neither cleared the FP state nor written
\* MIDELEG and MEDELEG; otherwise it returns 0 and leaves MIE = 0 and, on a
\* hart with supervisor mode, SATP = 0.
C15_ReinitOrder ==
    [][ReinitStep =>
           IF FsMissing
           THEN /\ rc' = SBI_EINVAL
                /\ fp_cleared' = fp_cleared
                /\ csr'.fcsr = csr.fcsr
                /\ csr'.mideleg = csr.mideleg
                /\ csr'.medeleg = csr.medeleg
           ELSE /\ rc' = 0
                /\ csr'.mie = {}
                /\ (misa_extension("S") => csr'.satp = 0)]_vars

\* A reinit has failed on a hart with F whose MSTATUS keeps no FS, after
\* mode initialization, leaving the delegation the CSRs held before it.
C15_Witness ==
    /\ reinit_log.ran
    /\ rc = SBI_EINVAL
    /\ misa_extension("F")
    /\ ~hw.fs_ok
    /\ ~fp_cleared
    /\ ~reinit_log.delegated
    /\ csr.mideleg = reinit_log.mideleg0
    /\ csr.mideleg # {}
    /\ csr.mie = {}

====
